---- MODULE Spec2Model ----
(***************************************************************************)
(* A model of the extraction pipeline of ytdl, video_info.go:              *)
(* getVideoInfoFromHTML and the helpers it calls.  Every call of           *)
(* getVideoInfoFromHTML is a small state machine over its local variables  *)
(* (info, jsonConfig, formats, response); the page bytes, the identifier   *)
(* and the answer of the get_video_info endpoint are its inputs.           *)
(*                                                                         *)
(* Strings the code only copies or compares are TLA+ strings.  Strings the *)
(* code scans are sequences: a stream map is the sequence of its segments  *)
(* and "," delimiters, lengthSeconds and publishDate are sequences of      *)
(* characters.  An int64 is the sequence of its 8 bytes, low byte first    *)
(* (two's complement), so that arithmetic wraps as the machine's does.     *)
(***************************************************************************)
EXTENDS Integers, Sequences, FiniteSets, TLC

VARIABLES
    sched,      \* how the calls are scheduled: "single", "twin", "concurrent"
    active,     \* the calls of getVideoInfoFromHTML that run
    id,         \* id[c]: the identifier argument
    html,       \* html[c]: the page bytes argument, by what the regexps find
    net,        \* net[c]: what httpGetAndCheckResponseReadBody answers
    pc,         \* pc[c]: the position of call c in getVideoInfoFromHTML
    info,       \* info[c]: the local *VideoInfo
    jsonConfig, \* jsonConfig[c]: the local playerConfig
    formats,    \* formats[c]: the local FormatList
    returned,   \* returned[c]: the (*VideoInfo, error) pair the call returned
    requests,   \* requests[c]: the requests the call issued, in order
    trace       \* trace[c]: the steps the call executed, in order

vars == <<sched, active, id, html, net, pc, info, jsonConfig, formats,
          returned, requests, trace>>

-----------------------------------------------------------------------------
(* Bounds of the model.                                                    *)

\* the longest legacy muxed stream map, in segments and delimiters
MaxMapLen == 3
\* the longest formats / adaptiveFormats list of a player response
MaxInfos == 2

Calls == {1, 2}

-----------------------------------------------------------------------------
(* int64 arithmetic on byte sequences.                                     *)

DigitVal ==
    ("0" :> 0) @@ ("1" :> 1) @@ ("2" :> 2) @@ ("3" :> 3) @@ ("4" :> 4) @@
    ("5" :> 5) @@ ("6" :> 6) @@ ("7" :> 7) @@ ("8" :> 8) @@ ("9" :> 9)

IsDigit(ch) == ch \in DOMAIN DigitVal

Word(n) == [i \in 1..n |-> 0]

\* w * m + carry, truncated to the width of w
RECURSIVE MulAdd(_, _, _, _)
MulAdd(w, m, carry, i) ==
    IF i > Len(w) THEN <<>>
    ELSE LET t == w[i] * m + carry
         IN  <<t % 256>> \o MulAdd(w, m, t \div 256, i + 1)

Negate(w) == MulAdd([i \in 1..Len(w) |-> 255 - w[i]], 1, 1, 1)

IsNegative(w) == w[Len(w)] >= 128

\* the digits of s from position i on, accumulated in 9 bytes; range is set
\* once the value has left the unsigned 64-bit range
RECURSIVE ParseUint(_, _, _)
ParseUint(s, i, acc) ==
    IF i > Len(s) THEN acc
    ELSE IF ~IsDigit(s[i]) THEN [acc EXCEPT !.syntax = TRUE]
    ELSE IF acc.range THEN ParseUint(s, i + 1, acc)
    ELSE LET n == MulAdd(acc.n, 10, DigitVal[s[i]], 1)
         IN  ParseUint(s, i + 1, [acc EXCEPT !.n = n, !.range = n[9] # 0])

\* strconv.Atoi on a 64-bit build: an optional sign, then decimal digits,
\* the value within [-2^63, 2^63 - 1]
Atoi(s) ==
    LET neg  == Len(s) > 0 /\ s[1] = "-"
        sign == Len(s) > 0 /\ s[1] \in {"+", "-"}
        body == IF sign THEN SubSeq(s, 2, Len(s)) ELSE s
        p    == ParseUint(body, 1, [n |-> Word(9), syntax |-> FALSE, range |-> FALSE])
        mag  == SubSeq(p.n, 1, 8)
        fits == /\ ~p.range
                /\ \/ mag[8] < 128
                   \/ neg /\ mag = [i \in 1..8 |-> IF i = 8 THEN 128 ELSE 0]
    IN  IF Len(body) = 0 \/ p.syntax \/ ~fits
        THEN [err |-> TRUE, val |-> Word(8)]
        ELSE [err |-> FALSE, val |-> IF neg THEN Negate(mag) ELSE mag]

\* time.Duration(val) * time.Second: val * 10^9 in int64, wrapping
MulSecond(val) ==
    MulAdd(MulAdd(MulAdd(val, 1000, 0, 1), 1000, 0, 1), 1000, 0, 1)

-----------------------------------------------------------------------------
(* time.Parse(youtubeDateFormat, s)                                        *)

youtubeDateFormat == <<"2", "0", "0", "6", "-", "0", "1", "-", "0", "2">>

ZeroTime == [year |-> 1, month |-> 1, day |-> 1]

Num(s, from, to) ==
    LET RECURSIVE acc(_, _)
        acc(i, n) == IF i > to THEN n ELSE acc(i + 1, n * 10 + DigitVal[s[i]])
    IN  acc(from, 0)

IsLeap(y) == y % 4 = 0 /\ (y % 100 # 0 \/ y % 400 = 0)

DaysIn(m, y) ==
    IF m = 2 THEN (IF IsLeap(y) THEN 29 ELSE 28)
    ELSE IF m \in {4, 6, 9, 11} THEN 30 ELSE 31

\* the layout is four digits, "-", two digits, "-", two digits and nothing
\* more; the month and the day must exist
ParseDate(s) ==
    LET shaped == /\ Len(s) = Len(youtubeDateFormat)
                  /\ \A i \in 1..Len(s) :
                        IF youtubeDateFormat[i] = "-" THEN s[i] = "-"
                        ELSE IsDigit(s[i])
        y == Num(s, 1, 4)
        m == Num(s, 6, 7)
        d == Num(s, 9, 10)
    IN  IF shaped /\ m \in 1..12 /\ d \in 1..DaysIn(m, y)
        THEN [err |-> FALSE, date |-> [year |-> y, month |-> m, day |-> d]]
        ELSE [err |-> TRUE, date |-> ZeroTime]

-----------------------------------------------------------------------------
(* The records of the program.                                             *)

NoError == [fmt |-> "", args |-> <<>>]

Errorf(fmt, args) == [fmt |-> fmt, args |-> args]

\* VideoInfo{}: Description is the sequence of the text runs written to it,
\* Duration an int64 of nanoseconds
ZeroVideoInfo ==
    [ID |-> "", Title |-> "", Description |-> <<>>, DatePublished |-> ZeroTime,
     Formats |-> <<>>, DASHManifestURL |-> "", HLSManifestURL |-> "",
     Keywords |-> <<>>, Uploader |-> "", Song |-> "", Artist |-> "",
     Album |-> "", Writers |-> "", Duration |-> Word(8), htmlPlayerFile |-> ""]

\* the zero value of playerResponse
ZeroResponse ==
    [PlayabilityStatus |-> [Status |-> "", Reason |-> ""],
     StreamingData |-> [DashManifestUrl |-> "", HlsManifestUrl |-> "",
                        Formats |-> <<>>, AdaptiveFormats |-> <<>>],
     VideoDetails |-> [LengthSeconds |-> <<>>, Title |-> "", Author |-> ""],
     Microformat |-> [Renderer |-> [PublishDate |-> <<>>]]]

\* a player_response string, by how it decodes: "absent" is the empty string,
\* "malformed" is no JSON for a playerResponse, "null" the JSON literal null,
\* "object" a JSON object holding value
AbsentResponse == [kind |-> "absent", value |-> ZeroResponse]

\* the zero value of playerConfig
ZeroArgs ==
    [Errorcode |-> "", Reason |-> "", Status |-> "",
     PlayerResponse |-> AbsentResponse, URLEncodedFmtStreamMap |-> <<>>,
     AdaptiveFmts |-> <<>>, Dashmpd |-> ""]

ZeroConfig == [Assets |-> [JS |-> ""], Args |-> ZeroArgs]

NotReturned == [done |-> FALSE, nilInfo |-> TRUE, info |-> ZeroVideoInfo, err |-> NoError]

Return(i, e) == [done |-> TRUE, nilInfo |-> FALSE, info |-> i, err |-> e]

ReturnNil(e) == [done |-> TRUE, nilInfo |-> TRUE, info |-> ZeroVideoInfo, err |-> e]

-----------------------------------------------------------------------------
(* The format list.                                                        *)

\* the itag field of a stream-map segment, 0 when the segment has none
QueryItag ==
    ("itag=18" :> 18) @@ ("itag=22" :> 22) @@ ("itag=137" :> 137) @@ ("url=x" :> 0)

\* FormatList.addByQueryString: a segment without an itag is an error and adds
\* nothing.  segment is what lies between two delimiters: one segment text or
\* nothing.
addByQueryString(fl, segment, adaptive) ==
    IF Len(segment) = 1 /\ QueryItag[segment[1]] > 0
    THEN Append(fl, [Itag |-> QueryItag[segment[1]], Adaptive |-> adaptive])
    ELSE fl

\* FormatList.addByInfo: an object without an itag is an error and adds nothing
addByInfo(fl, fi, adaptive) ==
    IF fi.Itag > 0
    THEN Append(fl, [Itag |-> fi.Itag, Adaptive |-> adaptive])
    ELSE fl

RECURSIVE addFormatsByInfosFrom(_, _, _, _)
addFormatsByInfosFrom(fl, infos, i, adaptive) ==
    IF i > Len(infos) THEN fl
    ELSE addFormatsByInfosFrom(addByInfo(fl, infos[i], adaptive), infos, i + 1, adaptive)

addFormatsByInfos(fl, infos, adaptive) == addFormatsByInfosFrom(fl, infos, 1, adaptive)

\* bufio.Reader.ReadString(','), reading rd from position pos: the text up to
\* and including the first delimiter, or what is left and io.EOF when there is
\* no delimiter any more
ReadString(rd, pos) ==
    LET ends == {j \in pos..Len(rd) : rd[j] = ","}
    IN  IF ends = {}
        THEN [line |-> SubSeq(rd, pos, Len(rd)), eof |-> TRUE, next |-> Len(rd) + 1]
        ELSE LET j == CHOOSE j \in ends : \A k \in ends : j <= k
             IN  [line |-> SubSeq(rd, pos, j), eof |-> FALSE, next |-> j + 1]

\* the loop of addFormatsByQueryStrings: it breaks on io.EOF before it looks
\* at the line read
RECURSIVE addFormatsByQueryStringsFrom(_, _, _, _)
addFormatsByQueryStringsFrom(fl, rd, pos, adaptive) ==
    LET r == ReadString(rd, pos)
    IN  IF r.eof THEN fl
        ELSE addFormatsByQueryStringsFrom(
                 addByQueryString(fl, SubSeq(r.line, 1, Len(r.line) - 1), adaptive),
                 rd, r.next, adaptive)

addFormatsByQueryStrings(fl, rd, adaptive) ==
    addFormatsByQueryStringsFrom(fl, rd, 1, adaptive)

\* the legacy maps with the adaptive map decoded under the flag of the muxed
LegacyFormats_OneFlag(inf) ==
    LET muxed == addFormatsByQueryStrings(<<>>, inf.URLEncodedFmtStreamMap, FALSE)
    IN  IF inf.AdaptiveFmts # <<>>
        THEN addFormatsByQueryStrings(muxed, inf.AdaptiveFmts, FALSE)
        ELSE muxed

\* lines 209-213: the legacy muxed map always, the adaptive map when not empty
LegacyFormats(inf) ==
    LET muxed == addFormatsByQueryStrings(<<>>, inf.URLEncodedFmtStreamMap, FALSE)
    IN  IF inf.AdaptiveFmts # <<>>
        THEN addFormatsByQueryStrings(muxed, inf.AdaptiveFmts, TRUE)
        ELSE muxed

-----------------------------------------------------------------------------
(* Page metadata.                                                          *)

\* the rows of the metadata table, in order: a later row of the same label
\* overwrites an earlier one, an unknown label is ignored
RECURSIVE addMetadataRows(_, _, _)
addMetadataRows(i, rows, n) ==
    IF n > Len(rows) THEN i
    ELSE LET key   == rows[n].key
             value == rows[n].value
             j == CASE key = "Artist"  -> [i EXCEPT !.Artist = value]
                    [] key = "Song"    -> [i EXCEPT !.Song = value]
                    [] key = "Album"   -> [i EXCEPT !.Album = value]
                    [] key = "Writers" -> [i EXCEPT !.Writers = value]
                    [] OTHER           -> i
         IN  addMetadataRows(j, rows, n + 1)

\* VideoInfo.addMetadata: jsondata that does not parse is an error and
\* leaves info as it was
addMetadata(i, jsondata) ==
    IF jsondata.kind = "malformed" THEN [err |-> TRUE, info |-> i]
    ELSE LET d == IF jsondata.hasDescription
                  THEN [i EXCEPT !.Description = jsondata.texts]
                  ELSE i
         IN  [err |-> FALSE, info |-> addMetadataRows(d, jsondata.rows, 1)]

\* lines 141-147: the metadata blob when the marker is found, then the ID
ExtractMetadata(i, ident, page) ==
    LET m == IF page.initialData.kind # "nomatch"
             THEN addMetadata(i, page.initialData).info
             ELSE i
    IN  [m EXCEPT !.ID = ident]

-----------------------------------------------------------------------------
(* The player configuration.                                               *)

youtubeVideoEURL == "https://youtube.googleapis.com/v/"

youtubeVideoInfoURL == "https://www.youtube.com/get_video_info"

\* the keys of a parsed get_video_info body the model draws: the seven the
\* loop knows and one it does not
QueryKeys ==
    {"errorcode", "reason", "status", "player_response",
     "url_encoded_fmt_stream_map", "adaptive_fmts", "dashmpd", "csn"}

\* url.Values{}: every key with the values given for it, in order
ZeroValues ==
    [errorcode |-> <<>>, reason |-> <<>>, status |-> <<>>, player_response |-> <<>>,
     url_encoded_fmt_stream_map |-> <<>>, adaptive_fmts |-> <<>>, dashmpd |-> <<>>,
     csn |-> <<>>]

KeysOf(query) == {k \in QueryKeys : query[k] # <<>>}

\* the orders in which range may visit the keys of a map
Orders(S) ==
    {o \in [1..Cardinality(S) -> S] : \A i, j \in DOMAIN o : i # j => o[i] # o[j]}

\* the loop with the case of "errorcode" writing the field of "reason"
RECURSIVE RangeQuery_SharedField(_, _, _, _)
RangeQuery_SharedField(cfg, query, order, n) ==
    IF n > Len(order) THEN cfg
    ELSE LET k == order[n]
             v == query[k]
             next ==
               CASE k = "errorcode"       -> [cfg EXCEPT !.Args.Reason = v[1]]
                 [] k = "reason"          -> [cfg EXCEPT !.Args.Reason = v[1]]
                 [] k = "status"          -> [cfg EXCEPT !.Args.Status = v[1]]
                 [] k = "player_response" -> [cfg EXCEPT !.Args.PlayerResponse = v[1]]
                 [] k = "url_encoded_fmt_stream_map" ->
                                 [cfg EXCEPT !.Args.URLEncodedFmtStreamMap = v[1]]
                 [] k = "adaptive_fmts"   -> [cfg EXCEPT !.Args.AdaptiveFmts = v[1]]
                 [] k = "dashmpd"         -> [cfg EXCEPT !.Args.Dashmpd = v[1]]
                 [] OTHER                 -> cfg
         IN  RangeQuery_SharedField(next, query, order, n + 1)

\* lines 182-201: the keys of query in the order range yields them
RECURSIVE RangeQuery(_, _, _, _)
RangeQuery(cfg, query, order, n) ==
    IF n > Len(order) THEN cfg
    ELSE LET k == order[n]
             v == query[k]
             next ==
               CASE k = "errorcode"       -> [cfg EXCEPT !.Args.Errorcode = v[1]]
                 [] k = "reason"          -> [cfg EXCEPT !.Args.Reason = v[1]]
                 [] k = "status"          -> [cfg EXCEPT !.Args.Status = v[1]]
                 [] k = "player_response" -> [cfg EXCEPT !.Args.PlayerResponse = v[1]]
                 [] k = "url_encoded_fmt_stream_map" ->
                                 [cfg EXCEPT !.Args.URLEncodedFmtStreamMap = v[1]]
                 [] k = "adaptive_fmts"   -> [cfg EXCEPT !.Args.AdaptiveFmts = v[1]]
                 [] k = "dashmpd"         -> [cfg EXCEPT !.Args.Dashmpd = v[1]]
                 [] OTHER                 -> cfg
         IN  RangeQuery(next, query, order, n + 1)

\* lines 167-170: the one request of the pipeline
FallbackRequest(ident) ==
    [url |-> youtubeVideoInfoURL, video_id |-> ident, eurl |-> <<youtubeVideoEURL, ident>>]

\* the answer with the error of the read dropped
FallbackError_ReadIgnored(answer) ==
    IF answer.kind = "body" /\ answer.parseErr
    THEN Errorf("Unable to parse video info data: %w", <<"invalid URL escape">>)
    ELSE NoError

\* lines 172-180: the answer of the endpoint, read and parsed
FallbackError(answer) ==
    IF answer.kind # "body"
    THEN Errorf("Unable to read video info: %w", <<answer.kind>>)
    ELSE IF answer.parseErr
    THEN Errorf("Unable to parse video info data: %w", <<"invalid URL escape">>)
    ELSE NoError

\* the gate with the wrong sentinel
StatusGate_WrongSentinel(inf) ==
    IF inf.Status = "error"
    THEN Errorf("Error %s:%s", <<inf.Errorcode, inf.Reason>>)
    ELSE NoError

\* lines 204-207: the status gate
StatusGate(inf) ==
    IF inf.Status = "fail"
    THEN Errorf("Error %s:%s", <<inf.Errorcode, inf.Reason>>)
    ELSE NoError

-----------------------------------------------------------------------------
(* The player response.                                                    *)

\* json.Unmarshal([]byte(inf.PlayerResponse), &response), response a non-nil
\* *playerResponse: the literal null sets the pointer response to nil
jsonUnmarshalResponse(text) ==
    CASE text.kind = "malformed" -> [err |-> TRUE,  isNil |-> FALSE, value |-> ZeroResponse]
      [] text.kind = "null"      -> [err |-> FALSE, isNil |-> TRUE,  value |-> ZeroResponse]
      [] OTHER                   -> [err |-> FALSE, isNil |-> FALSE, value |-> text.value]

\* lines 220-221
SetManifests(i, response) ==
    [i EXCEPT !.DASHManifestURL = response.StreamingData.DashManifestUrl,
              !.HLSManifestURL = response.StreamingData.HlsManifestUrl]

\* line 222
Playable(response) == response.PlayabilityStatus.Status = "OK"

\* the structured lists with the adaptive list decoded first
ModernFormats_AdaptiveFirst(fl, response) ==
    addFormatsByInfos(addFormatsByInfos(fl, response.StreamingData.AdaptiveFormats, TRUE),
                      response.StreamingData.Formats, FALSE)

\* lines 226-227
ModernFormats(fl, response) ==
    addFormatsByInfos(addFormatsByInfos(fl, response.StreamingData.Formats, FALSE),
                      response.StreamingData.AdaptiveFormats, TRUE)

\* lines 228-233
SetDuration(i, response) ==
    LET seconds == response.VideoDetails.LengthSeconds
        a == Atoi(seconds)
    IN  IF seconds # <<>> /\ ~a.err
        THEN [i EXCEPT !.Duration = MulSecond(a.val)]
        ELSE i

\* lines 235-239
SetDatePublished(i, response) ==
    LET d == ParseDate(response.Microformat.Renderer.PublishDate)
    IN  IF ~d.err THEN [i EXCEPT !.DatePublished = d.date] ELSE i

\* lines 241-242
SetTitleUploader(i, response) ==
    [i EXCEPT !.Title = response.VideoDetails.Title,
              !.Uploader = response.VideoDetails.Author]

\* the block with the decode error logged instead of returned
PlayerResponseStep_DecodeLogged(i, fl, inf) ==
    LET u == jsonUnmarshalResponse(inf.PlayerResponse)
        m == SetManifests(i, u.value)
    IN  IF inf.PlayerResponse.kind = "absent" \/ u.err
        THEN [exit |-> "next", info |-> i, formats |-> fl, err |-> NoError]
        ELSE IF u.isNil
        THEN [exit |-> "panic", info |-> i, formats |-> fl, err |-> NoError]
        ELSE IF ~Playable(u.value)
        THEN [exit |-> "return", info |-> m, formats |-> fl,
              err |-> Errorf("Unavailable because: %s",
                             <<u.value.PlayabilityStatus.Reason>>)]
        ELSE [exit |-> "next",
              info |-> SetTitleUploader(
                           SetDatePublished(SetDuration(m, u.value), u.value),
                           u.value),
              formats |-> ModernFormats(fl, u.value),
              err |-> NoError]

\* the block with the error of the date returned instead of logged
PlayerResponseStep_DateFatal(i, fl, inf) ==
    LET u == jsonUnmarshalResponse(inf.PlayerResponse)
        m == SetManifests(i, u.value)
    IN  IF inf.PlayerResponse.kind = "absent"
        THEN [exit |-> "next", info |-> i, formats |-> fl, err |-> NoError]
        ELSE IF u.err
        THEN [exit |-> "return", info |-> i, formats |-> fl,
              err |-> Errorf("Couldn't parse player response: %w", <<"json">>)]
        ELSE IF u.isNil
        THEN [exit |-> "panic", info |-> i, formats |-> fl, err |-> NoError]
        ELSE IF ~Playable(u.value)
        THEN [exit |-> "return", info |-> m, formats |-> fl,
              err |-> Errorf("Unavailable because: %s",
                             <<u.value.PlayabilityStatus.Reason>>)]
        ELSE IF ParseDate(u.value.Microformat.Renderer.PublishDate).err
        THEN [exit |-> "return", info |-> SetDuration(m, u.value),
              formats |-> ModernFormats(fl, u.value),
              err |-> Errorf("Unable to parse date published %v", <<"parsing time">>)]
        ELSE [exit |-> "next",
              info |-> SetTitleUploader(
                           SetDatePublished(SetDuration(m, u.value), u.value),
                           u.value),
              formats |-> ModernFormats(fl, u.value),
              err |-> NoError]

\* lines 214-245 as a whole: what becomes of info and formats, and how the
\* block is left ("next": on to line 247, "return": with err, "panic": the
\* nil pointer response is dereferenced at line 220)
PlayerResponseStep(i, fl, inf) ==
    IF inf.PlayerResponse.kind = "absent"
    THEN [exit |-> "next", info |-> i, formats |-> fl, err |-> NoError]
    ELSE LET u == jsonUnmarshalResponse(inf.PlayerResponse)
             m == SetManifests(i, u.value)
         IN  IF u.err
             THEN [exit |-> "return", info |-> i, formats |-> fl,
                   err |-> Errorf("Couldn't parse player response: %w", <<"json">>)]
             ELSE IF u.isNil
             THEN [exit |-> "panic", info |-> i, formats |-> fl, err |-> NoError]
             ELSE IF ~Playable(u.value)
             THEN [exit |-> "return", info |-> m, formats |-> fl,
                   err |-> Errorf("Unavailable because: %s",
                                  <<u.value.PlayabilityStatus.Reason>>)]
             ELSE [exit |-> "next",
                   info |-> SetTitleUploader(
                                SetDatePublished(SetDuration(m, u.value), u.value),
                                u.value),
                   formats |-> ModernFormats(fl, u.value),
                   err |-> NoError]

\* the last block without the player script taken from the configuration
Assemble_NoPlayerFile(i, cfg, fl) == [i EXCEPT !.Formats = fl]

\* lines 247-256
Assemble(i, cfg, fl) ==
    LET p == IF i.htmlPlayerFile = "" THEN [i EXCEPT !.htmlPlayerFile = cfg.Assets.JS]
             ELSE i
    IN  [p EXCEPT !.Formats = fl]

-----------------------------------------------------------------------------
(* The inputs the model draws.                                             *)

Ids == {"dQw4w9WgXcQ"}

SeqsUpTo(S, n) == UNION {[1..k -> S] : k \in 0..n}

\* a legacy map as the reader sees it: segment texts and delimiters, two
\* segment texts always with a delimiter between them
Tokenised(s) == \A j \in 1..(Len(s) - 1) : s[j] = "," \/ s[j + 1] = ","

StreamMaps ==
    {s \in SeqsUpTo({"itag=18", "itag=22", "url=x", ","}, MaxMapLen) : Tokenised(s)}

AdaptiveMaps ==
    {<<>>, <<"itag=137">>, <<"itag=137", ",">>, <<"url=x", ",", "itag=137", ",">>}

LengthSamples ==
    {<<>>,
     <<"0">>,
     <<"6", "3", "5">>,
     <<"a", "b", "c">>,
     <<"1", "2", "a">>,
     <<"-", "5">>,
     <<"+", "7">>,
     <<"9", "2", "2", "3", "3", "7", "2", "0", "3", "6">>,
     <<"9", "2", "2", "3", "3", "7", "2", "0", "3", "7">>,
     <<"1", "8", "4", "4", "6", "7", "4", "4", "0", "7", "4">>,
     <<"9", "2", "2", "3", "3", "7", "2", "0", "3", "6", "8", "5", "4", "7", "7", "5", "8", "0", "8">>}

DateSamples ==
    {<<>>,
     <<"2", "0", "2", "0", "-", "0", "2", "-", "2", "9">>,
     <<"2", "0", "2", "1", "-", "0", "2", "-", "2", "9">>,
     <<"2", "0", "2", "0", "-", "1", "3", "-", "0", "1">>,
     <<"2", "0", "2", "0", "-", "1", "-", "5">>,
     <<"2", "0", "2", "0", "0", "2", "2", "9">>,
     <<"0", "0", "0", "1", "-", "0", "1", "-", "0", "1">>,
     <<"2", "0", "2", "0", "-", "0", "2", "-", "2", "9", "1">>}

BaseResponse ==
    [PlayabilityStatus |-> [Status |-> "OK", Reason |-> ""],
     StreamingData |-> [DashManifestUrl |-> "https://manifest/dash",
                        HlsManifestUrl |-> "https://manifest/hls",
                        Formats |-> <<[Itag |-> 22]>>,
                        AdaptiveFormats |-> <<[Itag |-> 140]>>],
     VideoDetails |-> [LengthSeconds |-> <<"6", "3", "5">>,
                       Title |-> "title", Author |-> "author"],
     Microformat |-> [Renderer |-> [PublishDate |-> <<"2", "0", "2", "0", "-", "0", "2", "-", "2", "9">>]]]

Responses ==
    {ZeroResponse}
    \cup {[BaseResponse EXCEPT !.PlayabilityStatus = [Status |-> s, Reason |-> r]] :
            s \in {"OK", "", "UNPLAYABLE"}, r \in {"", "Video unavailable"}}
    \cup {[BaseResponse EXCEPT !.VideoDetails.LengthSeconds = l] : l \in LengthSamples}
    \cup {[BaseResponse EXCEPT !.Microformat.Renderer.PublishDate = d] : d \in DateSamples}
    \cup {[BaseResponse EXCEPT !.StreamingData.Formats = f,
                               !.StreamingData.AdaptiveFormats = a] :
            f \in SeqsUpTo({[Itag |-> 22], [Itag |-> 0]}, MaxInfos),
            a \in SeqsUpTo({[Itag |-> 140], [Itag |-> 0]}, MaxInfos)}

ResponseTexts ==
    {AbsentResponse,
     [kind |-> "malformed", value |-> ZeroResponse],
     [kind |-> "null", value |-> ZeroResponse]}
    \cup {[kind |-> "object", value |-> r] : r \in Responses}

BaseText == [kind |-> "object", value |-> BaseResponse]

ConfigArgs ==
    {[ZeroArgs EXCEPT !.PlayerResponse = t, !.URLEncodedFmtStreamMap = m,
                      !.AdaptiveFmts = IF m = <<>> THEN <<>> ELSE <<"itag=137", ",">>] :
        t \in ResponseTexts, m \in {<<>>, <<"itag=18", ",">>}}
    \cup {[ZeroArgs EXCEPT !.PlayerResponse = t, !.URLEncodedFmtStreamMap = m,
                           !.AdaptiveFmts = a] :
        t \in {AbsentResponse, BaseText}, m \in StreamMaps, a \in AdaptiveMaps}
    \cup {[ZeroArgs EXCEPT !.Status = s, !.Errorcode = e[1], !.Reason = e[2],
                           !.PlayerResponse = t,
                           !.URLEncodedFmtStreamMap = <<"itag=18", ",">>,
                           !.Dashmpd = "https://manifest/legacy"] :
        s \in {"", "ok", "fail"}, e \in {<<"", "">>, <<"100", "Video not found">>},
        t \in {AbsentResponse, BaseText}}

\* what regexpPlayerConfig finds in the page and how the match decodes
EmbeddedConfigs ==
    {[kind |-> "nomatch", value |-> ZeroConfig], [kind |-> "malformed", value |-> ZeroConfig]}
    \cup {[kind |-> "object", value |-> [Assets |-> [JS |-> "/yts/player.js"], Args |-> a]] :
            a \in ConfigArgs}
    \cup {[kind |-> "object", value |-> [Assets |-> [JS |-> ""], Args |-> a]] :
            a \in {ZeroArgs, [ZeroArgs EXCEPT !.PlayerResponse = BaseText]}}

\* what regexpInitialData finds in the page and how the match parses
NoInitialData == [kind |-> "nomatch", hasDescription |-> FALSE, texts |-> <<>>, rows |-> <<>>]

InitialDatas ==
    {NoInitialData,
     [kind |-> "malformed", hasDescription |-> TRUE, texts |-> <<"line">>,
      rows |-> <<[key |-> "Artist", value |-> "artist"]>>],
     [kind |-> "object", hasDescription |-> FALSE, texts |-> <<>>, rows |-> <<>>],
     [kind |-> "object", hasDescription |-> TRUE, texts |-> <<"line", "more">>,
      rows |-> <<[key |-> "Artist", value |-> "artist"], [key |-> "Song", value |-> "song"]>>],
     [kind |-> "object", hasDescription |-> TRUE, texts |-> <<>>,
      rows |-> <<[key |-> "Album", value |-> "album"], [key |-> "Writers", value |-> "w1"],
                 [key |-> "Licensed to", value |-> "label"],
                 [key |-> "Writers", value |-> "w2"]>>]}

\* the body of a get_video_info answer that carries args, one value a key
ValuesOf(a) ==
    [errorcode |-> IF a.Errorcode = "" THEN <<>> ELSE <<a.Errorcode>>,
     reason |-> IF a.Reason = "" THEN <<>> ELSE <<a.Reason>>,
     status |-> IF a.Status = "" THEN <<>> ELSE <<a.Status>>,
     player_response |->
        IF a.PlayerResponse.kind = "absent" THEN <<>> ELSE <<a.PlayerResponse>>,
     url_encoded_fmt_stream_map |->
        IF a.URLEncodedFmtStreamMap = <<>> THEN <<>> ELSE <<a.URLEncodedFmtStreamMap>>,
     adaptive_fmts |-> IF a.AdaptiveFmts = <<>> THEN <<>> ELSE <<a.AdaptiveFmts>>,
     dashmpd |-> IF a.Dashmpd = "" THEN <<>> ELSE <<a.Dashmpd>>,
     csn |-> <<>>]

FallbackArgs ==
    {[ZeroArgs EXCEPT !.Status = "ok", !.PlayerResponse = t, !.URLEncodedFmtStreamMap = m] :
        t \in ResponseTexts, m \in {<<>>, <<"itag=18", ",">>}}
    \cup {[ZeroArgs EXCEPT !.URLEncodedFmtStreamMap = m, !.AdaptiveFmts = a,
                           !.Dashmpd = "https://manifest/legacy"] :
        m \in StreamMaps, a \in AdaptiveMaps}
    \cup {[ZeroArgs EXCEPT !.Status = s, !.Errorcode = e[1], !.Reason = e[2],
                           !.PlayerResponse = t] :
        s \in {"ok", "fail"}, e \in {<<"", "">>, <<"100", "Video not found">>},
        t \in {AbsentResponse, BaseText}}

\* bodies with a key given twice, with a key with an empty value and with a
\* key the loop does not know
OddValues ==
    {[ZeroValues EXCEPT !.status = <<"fail", "ok">>, !.reason = <<"gone", "">>],
     [ZeroValues EXCEPT !.status = <<"ok", "fail">>, !.csn = <<"x">>,
                        !.player_response = <<BaseText, AbsentResponse>>],
     [ZeroValues EXCEPT !.status = <<"">>, !.csn = <<"x", "y">>,
                        !.url_encoded_fmt_stream_map = <<<<"itag=22", ",">>>>]}

\* what httpGetAndCheckResponseReadBody answers: an error of the transport, a
\* status that is not a success, the caller's context cancelled or past its
\* deadline, or the body
NetFailures ==
    {[kind |-> k, parseErr |-> FALSE, query |-> ZeroValues] :
        k \in {"transport error", "unexpected status code", "context canceled",
               "context deadline exceeded"}}

Nets ==
    NetFailures
    \cup {[kind |-> "body", parseErr |-> FALSE, query |-> ValuesOf(a)] : a \in FallbackArgs}
    \cup {[kind |-> "body", parseErr |-> FALSE, query |-> q] : q \in OddValues}
    \cup {[kind |-> "body", parseErr |-> TRUE, query |-> ValuesOf(a)] :
            a \in {ZeroArgs, [ZeroArgs EXCEPT !.Status = "ok", !.PlayerResponse = BaseText]}}

\* the endpoint is not asked when the page holds the config marker
UnaskedNet == [kind |-> "transport error", parseErr |-> FALSE, query |-> ZeroValues]

Inputs ==
    {[id |-> i, html |-> [initialData |-> d, playerConfig |-> p], net |-> n] :
        i \in Ids, d \in InitialDatas,
        p \in {e \in EmbeddedConfigs : e.kind # "nomatch"}, n \in {UnaskedNet}}
    \cup {[id |-> i, html |-> [initialData |-> d, playerConfig |-> p], net |-> n] :
        i \in Ids, d \in InitialDatas,
        p \in {e \in EmbeddedConfigs : e.kind = "nomatch"}, n \in Nets}

IdleInput ==
    [id |-> "", html |-> [initialData |-> NoInitialData,
                          playerConfig |-> [kind |-> "nomatch", value |-> ZeroConfig]],
     net |-> UnaskedNet]

-----------------------------------------------------------------------------
(* The calls.                                                              *)

Terminal == {"Done", "Failed", "Panicked"}

\* a call of a twin run starts when the calls before it have ended; the
\* calls of a concurrent run interleave freely
CanStep(c) ==
    /\ c \in active
    /\ sched = "twin" => \A d \in active : d < c => pc[d] \in Terminal

InitCalls(run, in) ==
    /\ active = run
    /\ id = [c \in Calls |-> in[c].id]
    /\ html = [c \in Calls |-> in[c].html]
    /\ net = [c \in Calls |-> in[c].net]
    /\ pc = [c \in Calls |-> IF c \in run THEN "Start" ELSE "Idle"]
    /\ info = [c \in Calls |-> ZeroVideoInfo]
    /\ jsonConfig = [c \in Calls |-> ZeroConfig]
    /\ formats = [c \in Calls |-> <<>>]
    /\ returned = [c \in Calls |-> NotReturned]
    /\ requests = [c \in Calls |-> <<>>]
    /\ trace = [c \in Calls |-> <<>>]

\* one call of getVideoInfoFromHTML on any input
Init ==
    /\ sched = "single"
    /\ \E in \in Inputs : InitCalls({1}, [c \in Calls |-> IF c = 1 THEN in ELSE IdleInput])

Step(c, name, to) ==
    /\ pc' = [pc EXCEPT ![c] = to]
    /\ trace' = [trace EXCEPT ![c] = Append(@, name)]
    /\ UNCHANGED <<sched, active, id, html, net>>

\* the metadata step with the parse error returned instead of logged
AddMetadata_Abort(c) ==
    /\ CanStep(c) /\ pc[c] = "Start"
    /\ IF html[c].initialData.kind = "malformed"
       THEN /\ returned' = [returned EXCEPT ![c] = ReturnNil(Errorf("json", <<"metadata">>))]
            /\ Step(c, "addMetadata", "Failed")
            /\ UNCHANGED info
       ELSE /\ info' = [info EXCEPT ![c] = ExtractMetadata(@, id[c], html[c])]
            /\ Step(c, "addMetadata", "MetadataExtracted")
            /\ UNCHANGED returned
    /\ UNCHANGED <<jsonConfig, formats, requests>>

\* lines 139-147
AddMetadata(c) ==
    /\ CanStep(c) /\ pc[c] = "Start"
    /\ info' = [info EXCEPT ![c] = ExtractMetadata(@, id[c], html[c])]
    /\ Step(c, "addMetadata", "MetadataExtracted")
    /\ UNCHANGED <<jsonConfig, formats, returned, requests>>

\* the decode with its error taken for a missing marker
DecodeConfig_ErrorFallsBack(c) ==
    /\ CanStep(c) /\ pc[c] = "MetadataExtracted"
    /\ html[c].playerConfig.kind # "nomatch"
    /\ IF html[c].playerConfig.kind = "malformed"
       THEN /\ requests' = [requests EXCEPT ![c] = Append(@, FallbackRequest(id[c]))]
            /\ Step(c, "requestFallback", "AwaitFallback")
            /\ UNCHANGED jsonConfig
       ELSE /\ jsonConfig' = [jsonConfig EXCEPT ![c] = html[c].playerConfig.value]
            /\ Step(c, "decodeConfig", "ConfigResolved")
            /\ UNCHANGED requests
    /\ UNCHANGED <<info, formats, returned>>

\* lines 152-156: the marker is in the page
DecodeConfig(c) ==
    /\ CanStep(c) /\ pc[c] = "MetadataExtracted"
    /\ html[c].playerConfig.kind # "nomatch"
    /\ IF html[c].playerConfig.kind = "malformed"
       THEN /\ returned' = [returned EXCEPT ![c] = ReturnNil(Errorf("json", <<"playerConfig">>))]
            /\ Step(c, "decodeConfig", "Failed")
            /\ UNCHANGED jsonConfig
       ELSE /\ jsonConfig' = [jsonConfig EXCEPT ![c] = html[c].playerConfig.value]
            /\ Step(c, "decodeConfig", "ConfigResolved")
            /\ UNCHANGED returned
    /\ UNCHANGED <<info, formats, requests>>

\* the fallback with the request of the embedded page (lines 160-165) made
\* before it
RequestFallback_WithEmbedded(c) ==
    /\ CanStep(c) /\ pc[c] = "MetadataExtracted"
    /\ html[c].playerConfig.kind = "nomatch"
    /\ requests' = [requests EXCEPT
                      ![c] = @ \o <<[FallbackRequest(id[c]) EXCEPT
                                        !.url = "https://www.youtube.com/embed/"],
                                    FallbackRequest(id[c])>>]
    /\ Step(c, "requestFallback", "AwaitFallback")
    /\ UNCHANGED <<info, jsonConfig, formats, returned>>

\* lines 157-172: the marker is not in the page, the endpoint is asked
RequestFallback(c) ==
    /\ CanStep(c) /\ pc[c] = "MetadataExtracted"
    /\ html[c].playerConfig.kind = "nomatch"
    /\ requests' = [requests EXCEPT ![c] = Append(@, FallbackRequest(id[c]))]
    /\ Step(c, "requestFallback", "AwaitFallback")
    /\ UNCHANGED <<info, jsonConfig, formats, returned>>

\* lines 172-202: the endpoint has answered
ReceiveFallback(c) ==
    /\ CanStep(c) /\ pc[c] = "AwaitFallback"
    /\ IF FallbackError(net[c]) # NoError
       THEN /\ returned' = [returned EXCEPT ![c] = ReturnNil(FallbackError(net[c]))]
            /\ Step(c, "receiveFallback", "Failed")
            /\ UNCHANGED jsonConfig
       ELSE /\ \E order \in Orders(KeysOf(net[c].query)) :
                 jsonConfig' = [jsonConfig EXCEPT
                                  ![c] = RangeQuery(@, net[c].query, order, 1)]
            /\ Step(c, "receiveFallback", "ConfigResolved")
            /\ UNCHANGED returned
    /\ UNCHANGED <<info, formats, requests>>

\* lines 204-207
CheckStatus(c) ==
    /\ CanStep(c) /\ pc[c] = "ConfigResolved"
    /\ IF StatusGate(jsonConfig[c].Args) # NoError
       THEN /\ returned' = [returned EXCEPT ![c] = ReturnNil(StatusGate(jsonConfig[c].Args))]
            /\ Step(c, "checkStatus", "Failed")
       ELSE /\ Step(c, "checkStatus", "PlayabilityChecked")
            /\ UNCHANGED returned
    /\ UNCHANGED <<info, jsonConfig, formats, requests>>

\* the legacy step with one format list that every call writes
BuildFormats_SharedList(c) ==
    /\ CanStep(c) /\ pc[c] = "PlayabilityChecked"
    /\ formats' = [d \in Calls |-> LegacyFormats(jsonConfig[c].Args)]
    /\ Step(c, "buildFormats", "FormatsBuilt")
    /\ UNCHANGED <<info, jsonConfig, returned, requests>>

\* lines 209-213
BuildFormats(c) ==
    /\ CanStep(c) /\ pc[c] = "PlayabilityChecked"
    /\ formats' = [formats EXCEPT ![c] = LegacyFormats(jsonConfig[c].Args)]
    /\ Step(c, "buildFormats", "FormatsBuilt")
    /\ UNCHANGED <<info, jsonConfig, returned, requests>>

\* lines 214-245
ParseResponse(c) ==
    /\ CanStep(c) /\ pc[c] = "FormatsBuilt"
    /\ LET r == PlayerResponseStep(info[c], formats[c], jsonConfig[c].Args)
       IN  /\ info' = [info EXCEPT ![c] = r.info]
           /\ formats' = [formats EXCEPT ![c] = r.formats]
           /\ CASE r.exit = "next" ->
                     /\ Step(c, "parseResponse", "ResponseParsed")
                     /\ UNCHANGED returned
                [] r.exit = "return" ->
                     /\ returned' = [returned EXCEPT ![c] = ReturnNil(r.err)]
                     /\ Step(c, "parseResponse", "Failed")
                [] r.exit = "panic" ->
                     /\ Step(c, "parseResponse", "Panicked")
                     /\ UNCHANGED returned
    /\ UNCHANGED <<jsonConfig, requests>>

\* the last block with an empty format list returned as an error
Finish_EmptyIsError(c) ==
    /\ CanStep(c) /\ pc[c] = "ResponseParsed"
    /\ info' = [info EXCEPT ![c] = Assemble(@, jsonConfig[c], formats[c])]
    /\ IF formats[c] = <<>>
       THEN /\ returned' = [returned EXCEPT ![c] = ReturnNil(Errorf("No formats found", <<>>))]
            /\ Step(c, "finish", "Failed")
       ELSE /\ returned' = [returned EXCEPT
                              ![c] = Return(Assemble(info[c], jsonConfig[c], formats[c]),
                                            NoError)]
            /\ Step(c, "finish", "Done")
    /\ UNCHANGED <<jsonConfig, formats, requests>>

\* lines 247-256
Finish(c) ==
    /\ CanStep(c) /\ pc[c] = "ResponseParsed"
    /\ info' = [info EXCEPT ![c] = Assemble(@, jsonConfig[c], formats[c])]
    /\ returned' = [returned EXCEPT
                      ![c] = Return(Assemble(info[c], jsonConfig[c], formats[c]), NoError)]
    /\ Step(c, "finish", "Done")
    /\ UNCHANGED <<jsonConfig, formats, requests>>

Next ==
    \E c \in Calls :
        \/ AddMetadata(c)
        \/ DecodeConfig(c)
        \/ RequestFallback(c)
        \/ ReceiveFallback(c)
        \/ CheckStatus(c)
        \/ BuildFormats(c)
        \/ ParseResponse(c)
        \/ Finish(c)

Spec == Init /\ [][Next]_vars

-----------------------------------------------------------------------------
(* Two calls on pages that differ in the metadata blob alone.              *)

TwinConfigs ==
    {[kind |-> "nomatch", value |-> ZeroConfig], [kind |-> "malformed", value |-> ZeroConfig]}
    \cup {[kind |-> "object", value |-> [Assets |-> [JS |-> "/yts/player.js"], Args |-> a]] :
            a \in {ZeroArgs,
                   [ZeroArgs EXCEPT !.Status = "fail", !.Errorcode = "100",
                                    !.Reason = "Video not found"],
                   [ZeroArgs EXCEPT !.URLEncodedFmtStreamMap = <<"itag=18", ",">>,
                                    !.PlayerResponse = BaseText],
                   [ZeroArgs EXCEPT !.PlayerResponse =
                                        [kind |-> "malformed", value |-> ZeroResponse]],
                   [ZeroArgs EXCEPT !.PlayerResponse =
                                        [kind |-> "null", value |-> ZeroResponse]],
                   [ZeroArgs EXCEPT !.PlayerResponse =
                        [kind |-> "object",
                         value |-> [BaseResponse EXCEPT !.PlayabilityStatus =
                                       [Status |-> "UNPLAYABLE",
                                        Reason |-> "Video unavailable"]]]]}}

TwinNets ==
    {n \in Nets :
        \/ n.kind \in {"transport error", "context canceled"}
        \/ n.parseErr
        \/ n.query \in OddValues
        \/ n.query = ValuesOf([ZeroArgs EXCEPT !.Status = "ok", !.PlayerResponse = BaseText,
                                               !.URLEncodedFmtStreamMap = <<"itag=18", ",">>])}

TwinInput(i, d, p, n) ==
    [id |-> i, html |-> [initialData |-> d, playerConfig |-> p],
     net |-> IF p.kind = "nomatch" THEN n ELSE UnaskedNet]

InitTwin ==
    /\ sched = "twin"
    /\ \E i \in Ids, p \in TwinConfigs, n \in TwinNets, d1, d2 \in InitialDatas :
          InitCalls({1, 2}, [c \in Calls |-> TwinInput(i, IF c = 1 THEN d1 ELSE d2, p, n)])

SpecTwin == InitTwin /\ [][Next]_vars

-----------------------------------------------------------------------------
(* Two calls on the same identifier, the same page bytes and the same      *)
(* answer of the endpoint, one after the other.                            *)

InitSame ==
    /\ sched = "twin"
    /\ \E in \in Inputs : InitCalls({1, 2}, [c \in Calls |-> in])

SpecSame == InitSame /\ [][Next]_vars

-----------------------------------------------------------------------------
(* Two calls, each on a page and an answer of its own, their steps         *)
(* interleaved in any way.                                                 *)

ConcInputs ==
    {TwinInput(i, d, p, n) :
        i \in Ids, d \in {x \in InitialDatas : x.kind = "nomatch" \/ Len(x.texts) = 2},
        p \in TwinConfigs, n \in TwinNets}

InitConc ==
    /\ sched = "concurrent"
    /\ \E in1, in2 \in ConcInputs :
          InitCalls({1, 2}, [c \in Calls |-> IF c = 1 THEN in1 ELSE in2])

SpecConc == InitConc /\ [][Next]_vars

-----------------------------------------------------------------------------
(* The claims.                                                             *)

Has(tr, name) == \E n \in DOMAIN tr : tr[n] = name

Ended(c) == c \in active /\ pc[c] \in Terminal

Succeeded(c) ==
    /\ pc[c] = "Done"
    /\ returned[c].done /\ ~returned[c].nilInfo /\ returned[c].err = NoError

FailedWith(c, e) == pc[c] = "Failed" /\ returned[c] = ReturnNil(e)

\* C1: a page whose embedded config holds a muxed stream map of exactly one
\* well-formed segment, itag 18, with no delimiter after it, no adaptive map
\* and no player response, yields a VideoInfo with exactly one format, itag
\* 18 and not adaptive, an empty title and a zero duration.
C1_SingleSegmentYieldsOneFormat ==
    \A c \in active :
        LET cfg == html[c].playerConfig
        IN  ( /\ Ended(c)
              /\ cfg.kind = "object"
              /\ cfg.value.Args.Status # "fail"
              /\ cfg.value.Args.URLEncodedFmtStreamMap = <<"itag=18">>
              /\ cfg.value.Args.AdaptiveFmts = <<>>
              /\ cfg.value.Args.PlayerResponse.kind = "absent" )
            => /\ Succeeded(c)
               /\ returned[c].info.Formats = <<[Itag |-> 18, Adaptive |-> FALSE]>>
               /\ returned[c].info.Title = ""
               /\ returned[c].info.Duration = Word(8)

\* C2: once the configuration of a call, from the page or from the endpoint,
\* has status "fail", the call can only return the error that carries the
\* configuration's error code and reason, with no VideoInfo, and it never
\* decodes a format nor looks at the player response.
C2_StatusFailAborts ==
    \A c \in active :
        jsonConfig[c].Args.Status = "fail"
        => /\ pc[c] \in {"ConfigResolved", "Failed"}
           /\ pc[c] = "Failed"
                => returned[c] = ReturnNil(Errorf("Error %s:%s",
                                     <<jsonConfig[c].Args.Errorcode,
                                       jsonConfig[c].Args.Reason>>))
           /\ formats[c] = <<>>
           /\ ~Has(trace[c], "buildFormats")
           /\ ~Has(trace[c], "parseResponse")
           /\ ~Has(trace[c], "finish")

C2_Witness ==
    \E c \in active :
        /\ jsonConfig[c].Args.Status = "fail"
        /\ FailedWith(c, Errorf("Error %s:%s", <<"100", "Video not found">>))
        /\ jsonConfig[c].Args.PlayerResponse.kind = "object"
        /\ jsonConfig[c].Args.URLEncodedFmtStreamMap # <<>>

FirstValue(v, zero) == IF v = <<>> THEN zero ELSE v[1]

\* the configuration a parsed body stands for: of every known key the first
\* value, and nothing else
ConfigOfQuery(q) ==
    [Assets |-> [JS |-> ""],
     Args |-> [Errorcode |-> FirstValue(q.errorcode, ""),
               Reason |-> FirstValue(q.reason, ""),
               Status |-> FirstValue(q.status, ""),
               PlayerResponse |-> FirstValue(q.player_response, AbsentResponse),
               URLEncodedFmtStreamMap |-> FirstValue(q.url_encoded_fmt_stream_map, <<>>),
               AdaptiveFmts |-> FirstValue(q.adaptive_fmts, <<>>),
               Dashmpd |-> FirstValue(q.dashmpd, "")]]

\* C3: a call asks the get_video_info endpoint exactly once when the page
\* holds no config marker and never when it holds one, decodable or not; it
\* makes no other request; and when it asked, the configuration the later
\* steps use holds what the answer holds and nothing else.
C3_FallbackRequestedOnce ==
    \A c \in active :
        LET found  == html[c].playerConfig.kind # "nomatch"
            asking == pc[c] \in {"Start", "MetadataExtracted"}
        IN  /\ found => requests[c] = <<>>
            /\ (~found /\ asking) => requests[c] = <<>>
            /\ (~found /\ ~asking) => requests[c] = <<FallbackRequest(id[c])>>
            /\ (~found /\ (pc[c] = "ConfigResolved" \/ Has(trace[c], "checkStatus")))
                  => jsonConfig[c] = ConfigOfQuery(net[c].query)

C3_Witness ==
    \E c \in active :
        /\ Succeeded(c)
        /\ requests[c] = <<FallbackRequest(id[c])>>
        /\ Cardinality(KeysOf(net[c].query)) >= 3
        /\ returned[c].info.Title = "title"

\* C4: every call that ends has returned either a VideoInfo and no error or
\* no VideoInfo and an error.
C4_VideoInfoOrError ==
    \A c \in active :
        Ended(c) => /\ returned[c].done
                    /\ returned[c].nilInfo <=> returned[c].err # NoError

\* C5: when the player response is present and decodes and its playability
\* status is not "OK", absent and empty included, the call returns the error
\* that carries the response's reason, with no VideoInfo; no format of the
\* response is added and title, uploader, duration and publish date stay
\* unset.
C5_UnplayableResponseFails ==
    \A c \in active :
        LET text == jsonConfig[c].Args.PlayerResponse
            u    == jsonUnmarshalResponse(text)
        IN  ( /\ Has(trace[c], "parseResponse")
              /\ text.kind # "absent" /\ ~u.err
              /\ u.value.PlayabilityStatus.Status # "OK" )
            => /\ FailedWith(c, Errorf("Unavailable because: %s",
                                       <<u.value.PlayabilityStatus.Reason>>))
               /\ formats[c] = LegacyFormats(jsonConfig[c].Args)
               /\ info[c].Title = "" /\ info[c].Uploader = ""
               /\ info[c].Duration = Word(8) /\ info[c].DatePublished = ZeroTime

\* C6: when the config marker is in the page and what it matched does not
\* decode, the call returns that error and never asks the endpoint; when the
\* marker is not in the page, the call asks the endpoint next and has
\* returned nothing by then.
C6_ConfigDecodeErrorIsFatal ==
    \A c \in active :
        LET kind   == html[c].playerConfig.kind
            before == pc[c] \in {"Start", "MetadataExtracted"}
        IN  /\ (kind = "malformed" /\ ~before)
                  => /\ FailedWith(c, Errorf("json", <<"playerConfig">>))
                     /\ requests[c] = <<>>
                     /\ trace[c] = <<"addMetadata", "decodeConfig">>
            /\ (kind = "nomatch" /\ ~before)
                  => /\ SubSeq(trace[c], 1, 2) = <<"addMetadata", "requestFallback">>
                     /\ pc[c] = "AwaitFallback" => returned[c] = NotReturned

C6_Witness ==
    \E c \in active :
        /\ html[c].playerConfig.kind = "malformed"
        /\ pc[c] = "Failed"
        /\ html[c].initialData.kind = "object"

Unset(i) ==
    /\ i.Title = "" /\ i.Uploader = ""
    /\ i.Duration = Word(8) /\ i.DatePublished = ZeroTime
    /\ i.DASHManifestURL = "" /\ i.HLSManifestURL = ""

Outcome(c) ==
    [pc |-> pc[c],
     returned |-> [returned[c] EXCEPT !.info.Description = <<>>, !.info.Artist = "",
                                      !.info.Song = "", !.info.Album = "",
                                      !.info.Writers = ""],
     requests |-> requests[c]]

\* C8: the metadata step never ends a call: whatever the page holds for the
\* metadata blob, the call goes on to resolve the configuration, and two
\* calls on pages that differ in the blob alone end the same way; when the
\* blob does not parse or is not there, description, artist, song, album and
\* writers stay unset.
C8_MetadataNeverAborts ==
    /\ \A c \in active :
          /\ Len(trace[c]) = 1
                => /\ trace[c] = <<"addMetadata">>
                   /\ pc[c] = "MetadataExtracted"
                   /\ returned[c] = NotReturned
          /\ html[c].initialData.kind \in {"nomatch", "malformed"}
                => /\ info[c].Description = <<>> /\ info[c].Artist = ""
                   /\ info[c].Song = "" /\ info[c].Album = "" /\ info[c].Writers = ""
    /\ (\A c \in active : Ended(c)) => \A c, d \in active : Outcome(c) = Outcome(d)

C8_Witness ==
    /\ active = {1, 2}
    /\ html[1].initialData.kind = "malformed"
    /\ html[2].initialData.kind = "object"
    /\ Succeeded(1) /\ Succeeded(2)
    /\ returned[2].info.Artist = "artist"
    /\ returned[1].info.Artist = ""

\* C9: when the endpoint was asked and the request failed (the transport, a
\* status that is no success, the caller's context cancelled or expired),
\* the call returns an error and no VideoInfo, and neither the status gate
\* nor a format decoding nor the player-response step runs.
C9_FallbackFailureIsFatal ==
    \A c \in active :
        (net[c].kind # "body" /\ Has(trace[c], "receiveFallback"))
        => /\ FailedWith(c, Errorf("Unable to read video info: %w", <<net[c].kind>>))
           /\ trace[c] = <<"addMetadata", "requestFallback", "receiveFallback">>
           /\ formats[c] = <<>>
           /\ jsonConfig[c] = ZeroConfig

C9_Witness ==
    \E c \in active :
        /\ net[c].kind = "context deadline exceeded"
        /\ pc[c] = "Failed"
        /\ Len(requests[c]) = 1

\* s is a decimal numeral
IsNumeral(s) == Len(s) > 0 /\ \A n \in DOMAIN s : IsDigit(s[n])

\* s is empty or holds a character that is neither a digit nor a leading sign
NonNumeric(s) ==
    \/ s = <<>>
    \/ \E n \in DOMAIN s : ~IsDigit(s[n]) /\ ~(n = 1 /\ s[n] \in {"+", "-"})

\* the numeral s times 10^9, exactly, in 16 bytes
RECURSIVE WideValue(_, _, _)
WideValue(s, n, acc) ==
    IF n > Len(s) THEN acc
    ELSE WideValue(s, n + 1, MulAdd(acc, 10, DigitVal[s[n]], 1))

ExactNanoseconds(s) == MulSecond(WideValue(s, 1, Word(16)))

SignExtend(w) == w \o [n \in 1..8 |-> IF IsNegative(w) THEN 255 ELSE 0]

\* C10: with a playable player response the call succeeds; when
\* lengthSeconds is a decimal numeral n the duration is n seconds, when it
\* is empty or not numeric the duration is zero.
C10_DurationIsLengthSeconds ==
    \A c \in active :
        LET text == jsonConfig[c].Args.PlayerResponse
            s    == text.value.VideoDetails.LengthSeconds
        IN  ( /\ Has(trace[c], "parseResponse")
              /\ text.kind = "object"
              /\ text.value.PlayabilityStatus.Status = "OK" )
            => /\ pc[c] \in {"ResponseParsed", "Done"}
               /\ pc[c] = "Done"
                    => /\ Succeeded(c)
                       /\ IsNumeral(s)
                            => SignExtend(returned[c].info.Duration) = ExactNanoseconds(s)
                       /\ NonNumeric(s) => returned[c].info.Duration = Word(8)

\* C11: the duration of every returned VideoInfo is not negative, whatever
\* the lengthSeconds string of the player response holds, a leading minus
\* sign and a numeral whose nanoseconds leave the int64 range included.
C11_DurationNonNegative ==
    \A c \in active : Succeeded(c) => ~IsNegative(returned[c].info.Duration)

\* the itags of the segments of a legacy map
MapItags(rd) == {QueryItag[rd[n]] : n \in {k \in DOMAIN rd : rd[k] # ","}}

\* the itags of the elements of a structured list
InfoItags(infos) == {infos[n].Itag : n \in DOMAIN infos}

\* the player response a call decoded, the zero value when it has none
ResponseOf(c) == jsonUnmarshalResponse(jsonConfig[c].Args.PlayerResponse).value

\* C12: every format of a returned VideoInfo carries the flag of the batch
\* it was decoded in and the itag of an element of that batch: not adaptive
\* for the legacy muxed map and the formats list of the player response,
\* adaptive for the legacy adaptive map and the adaptiveFormats list.
C12_AdaptiveFlagOfSource ==
    \A c \in active :
        Succeeded(c) =>
            \A n \in DOMAIN returned[c].info.Formats :
                LET f   == returned[c].info.Formats[n]
                    inf == jsonConfig[c].Args
                IN  IF f.Adaptive
                    THEN f.Itag \in MapItags(inf.AdaptiveFmts)
                                    \cup InfoItags(ResponseOf(c).StreamingData.AdaptiveFormats)
                    ELSE f.Itag \in MapItags(inf.URLEncodedFmtStreamMap)
                                    \cup InfoItags(ResponseOf(c).StreamingData.Formats)

C12_Witness ==
    \E c \in active :
        /\ Succeeded(c)
        /\ {f.Itag : f \in {returned[c].info.Formats[n] : n \in DOMAIN returned[c].info.Formats}}
              = {18, 137, 22, 140}

\* the errors getVideoInfoFromHTML returns, by their format strings
FatalErrors ==
    {"json", "Unable to read video info: %w", "Unable to parse video info data: %w",
     "Error %s:%s", "Couldn't parse player response: %w", "Unavailable because: %s"}

\* C13: a call that meets no fatal condition succeeds, also when the format
\* list it accumulated is empty, and then returns a VideoInfo with no
\* format; no error a call returns comes from an empty format list.
C13_EmptyFormatsIsSuccess ==
    \A c \in active :
        /\ Has(trace[c], "finish")
              => /\ Succeeded(c)
                 /\ returned[c].info.Formats = formats[c]
        /\ (pc[c] = "ResponseParsed" /\ formats[c] = <<>>) => returned[c] = NotReturned
        /\ returned[c].err # NoError => returned[c].err.fmt \in FatalErrors

C13_Witness ==
    \E c \in active :
        /\ Succeeded(c)
        /\ returned[c].info.Formats = <<>>
        /\ jsonConfig[c].Args.URLEncodedFmtStreamMap = <<"url=x", ",">>
        /\ jsonConfig[c].Args.AdaptiveFmts = <<>>
        /\ jsonConfig[c].Args.PlayerResponse.kind = "absent"

\* the calendar dates among the publish-date strings the model draws; every
\* other string is no date of the layout 2006-01-02
DateOf(s) ==
    IF s = <<"2", "0", "2", "0", "-", "0", "2", "-", "2", "9">>
    THEN [year |-> 2020, month |-> 2, day |-> 29]
    ELSE IF s = <<"0", "0", "0", "1", "-", "0", "1", "-", "0", "1">>
    THEN [year |-> 1, month |-> 1, day |-> 1]
    ELSE ZeroTime

\* C14: with a playable player response the call succeeds whatever the
\* publish-date string holds; a string that is no date of the layout
\* 2006-01-02, the empty one included, leaves DatePublished at its zero
\* value, a date of the layout gives that date, and title, uploader, manifest
\* URLs and formats are what they are for any date.
C14_BadPublishDateIsIgnored ==
    \A c \in active :
        LET text == jsonConfig[c].Args.PlayerResponse
            r    == text.value
        IN  ( /\ Has(trace[c], "parseResponse")
              /\ text.kind = "object"
              /\ r.PlayabilityStatus.Status = "OK" )
            => /\ pc[c] \in {"ResponseParsed", "Done"}
               /\ pc[c] = "Done"
                    => /\ Succeeded(c)
                       /\ returned[c].info.DatePublished = DateOf(r.Microformat.Renderer.PublishDate)
                       /\ returned[c].info.Title = r.VideoDetails.Title
                       /\ returned[c].info.Uploader = r.VideoDetails.Author
                       /\ returned[c].info.DASHManifestURL = r.StreamingData.DashManifestUrl
                       /\ returned[c].info.HLSManifestURL = r.StreamingData.HlsManifestUrl
                       /\ returned[c].info.Formats
                            = ModernFormats(LegacyFormats(jsonConfig[c].Args), r)

C14_Witness ==
    \E c \in active :
        /\ Succeeded(c)
        /\ ResponseOf(c).Microformat.Renderer.PublishDate
              = <<"2", "0", "2", "1", "-", "0", "2", "-", "2", "9">>
        /\ returned[c].info.DatePublished = ZeroTime
        /\ returned[c].info.Title = "title"

\* C15: two calls on the same identifier, the same page bytes and the same
\* body of the endpoint's answer end the same way and, when they succeed,
\* return the same VideoInfo field for field, the formats in the same order,
\* whatever order range yields the keys of the parsed body in.
C15_SameInputSameResult ==
    \A c, d \in active :
        ( /\ Ended(c) /\ Ended(d)
          /\ id[c] = id[d] /\ html[c] = html[d] /\ net[c] = net[d] )
        => /\ pc[c] = pc[d]
           /\ returned[c] = returned[d]
           /\ requests[c] = requests[d]

C15_Witness ==
    /\ active = {1, 2}
    /\ Succeeded(1) /\ Succeeded(2)
    /\ Cardinality(KeysOf(net[1].query)) >= 3
    /\ Len(returned[2].info.Formats) >= 2
    /\ returned[1].info.Formats = returned[2].info.Formats

\* what a call with the configuration cfg resolved and the metadata meta
\* extracted ends with when no other call runs
AloneFrom(meta, cfg) ==
    IF StatusGate(cfg.Args) # NoError
    THEN [pc |-> "Failed", returned |-> ReturnNil(StatusGate(cfg.Args))]
    ELSE LET r == PlayerResponseStep(meta, LegacyFormats(cfg.Args), cfg.Args)
         IN  CASE r.exit = "next" ->
                    [pc |-> "Done",
                     returned |-> Return(Assemble(r.info, cfg, r.formats), NoError)]
               [] r.exit = "return" -> [pc |-> "Failed", returned |-> ReturnNil(r.err)]
               [] r.exit = "panic" -> [pc |-> "Panicked", returned |-> NotReturned]

\* the ends of a call on the identifier i, the page h and the answer n when
\* no other call runs
Alone(i, h, n) ==
    LET meta == ExtractMetadata(ZeroVideoInfo, i, h)
    IN  CASE h.playerConfig.kind = "malformed" ->
               {[pc |-> "Failed", returned |-> ReturnNil(Errorf("json", <<"playerConfig">>))]}
          [] h.playerConfig.kind = "object" ->
               {AloneFrom(meta, h.playerConfig.value)}
          [] h.playerConfig.kind = "nomatch" /\ FallbackError(n) # NoError ->
               {[pc |-> "Failed", returned |-> ReturnNil(FallbackError(n))]}
          [] OTHER ->
               {AloneFrom(meta, RangeQuery(ZeroConfig, n.query, order, 1)) :
                    order \in Orders(KeysOf(n.query))}

\* C16: calls whose steps interleave in any way share no state of the
\* extraction: each call that has ended has ended the way it ends when it
\* runs alone on its identifier, page and answer, with the same VideoInfo
\* or the same error, and has sent the one request it sends alone.
C16_ConcurrentCallsAreIsolated ==
    \A c \in active :
        pc[c] \in Terminal
        => /\ [pc |-> pc[c], returned |-> returned[c]] \in Alone(id[c], html[c], net[c])
           /\ requests[c] \in {<<>>, <<FallbackRequest(id[c])>>}
           /\ requests[c] = <<>> <=> html[c].playerConfig.kind # "nomatch"

\* two interleaved calls have succeeded, each with formats and a description
\* of its own
C16_Witness ==
    /\ sched = "concurrent"
    /\ Succeeded(1) /\ Succeeded(2)
    /\ returned[1].info.Formats # returned[2].info.Formats
    /\ returned[1].info.Formats # <<>>
    /\ returned[1].info.Description # returned[2].info.Description

\* the states of the pipeline in their order, and the steps that lead from
\* each to the next; asking the endpoint and reading its answer resolve the
\* configuration together
Pipeline ==
    <<"Start", "MetadataExtracted", "ConfigResolved", "PlayabilityChecked",
      "FormatsBuilt", "ResponseParsed", "Done">>

PipelineSteps ==
    <<{"addMetadata"}, {"decodeConfig", "receiveFallback"}, {"checkStatus"},
      {"buildFormats"}, {"parseResponse"}, {"finish"}>>

Asked(name) == name # "requestFallback"

\* the guards of the steps: some step of the call c can be taken
HasStep(c) ==
    /\ CanStep(c)
    /\ \/ pc[c] \in {"Start", "AwaitFallback", "ConfigResolved", "PlayabilityChecked",
                     "FormatsBuilt", "ResponseParsed"}
       \/ pc[c] = "MetadataExtracted" /\ html[c].playerConfig.kind # "nomatch"
       \/ pc[c] = "MetadataExtracted" /\ html[c].playerConfig.kind = "nomatch"

\* C17: a run goes through Start, MetadataExtracted, ConfigResolved,
\* PlayabilityChecked, FormatsBuilt, ResponseParsed and Done in this order,
\* one state a step, none skipped or repeated; it can always take a step
\* until it is in Done with a VideoInfo returned or has left by a fatal exit
\* with an error returned, and takes none after that.
C17_FixedOrderUntilDoneOrFatalExit ==
    \A c \in active :
        LET t == SelectSeq(trace[c], Asked)
            n == Len(t)
        IN  /\ n <= Len(PipelineSteps)
            /\ \A k \in 1..n : t[k] \in PipelineSteps[k]
            /\ \/ pc[c] = Pipeline[n + 1]
               \/ pc[c] = "Failed"
               \/ pc[c] = "AwaitFallback" /\ n = 1 /\ Len(trace[c]) = 2
            /\ pc[c] \in {"Done", "Failed"} <=> ~ HasStep(c)
            /\ pc[c] = "Done" => returned[c].done /\ returned[c].err = NoError
            /\ pc[c] = "Failed" => returned[c].done /\ returned[c].err # NoError

RECURSIVE IsSubsequence(_, _)
IsSubsequence(a, b) ==
    IF a = <<>> THEN TRUE
    ELSE IF b = <<>> THEN FALSE
    ELSE IF Head(a) = Head(b) THEN IsSubsequence(Tail(a), Tail(b))
    ELSE IsSubsequence(a, Tail(b))

IsSegment(token) == token # ","

HasItag(fi) == fi.Itag > 0

\* the itags of the segments of a legacy map, in the order of the map
MapItagSeq(rd) ==
    LET segments == SelectSeq(rd, IsSegment)
    IN  [n \in DOMAIN segments |-> QueryItag[segments[n]]]

ItagsOf(fl) == [n \in DOMAIN fl |-> fl[n].Itag]

\* the records of the elements of a structured list that carry an itag, in
\* the order of the list
RecordsOf(infos, adaptive) ==
    LET decoded == SelectSeq(infos, HasItag)
    IN  [n \in DOMAIN decoded |-> [Itag |-> decoded[n].Itag, Adaptive |-> adaptive]]

\* fl is records of the muxed map, not adaptive and in the order of the
\* map, and after them records of the adaptive map, adaptive and in its order
LegacyOrdered(fl, inf) ==
    \E m \in 0..Len(fl) :
        /\ \A n \in 1..m : ~fl[n].Adaptive
        /\ \A n \in (m + 1)..Len(fl) : fl[n].Adaptive
        /\ IsSubsequence(ItagsOf(SubSeq(fl, 1, m)), MapItagSeq(inf.URLEncodedFmtStreamMap))
        /\ IsSubsequence(ItagsOf(SubSeq(fl, m + 1, Len(fl))), MapItagSeq(inf.AdaptiveFmts))

\* C18: the formats accumulate in the order legacy muxed, legacy adaptive,
\* modern muxed, modern adaptive: the legacy step leaves the records of the
\* muxed map before those of the adaptive map, the step of a playable player
\* response keeps the list it finds and appends the records of formats and
\* then those of adaptiveFormats, and the list returned is that list.
C18_FormatsAccumulateInOrder ==
    [][\A c \in active :
          /\ pc'[c] = "FormatsBuilt" /\ pc[c] # "FormatsBuilt"
             => LegacyOrdered(formats'[c], jsonConfig[c].Args)
          /\ pc[c] = "FormatsBuilt" /\ pc'[c] = "ResponseParsed"
               /\ jsonConfig[c].Args.PlayerResponse.kind = "object"
             => formats'[c] = formats[c]
                                \o RecordsOf(ResponseOf(c).StreamingData.Formats, FALSE)
                                \o RecordsOf(ResponseOf(c).StreamingData.AdaptiveFormats, TRUE)
          /\ pc[c] = "ResponseParsed" /\ pc'[c] = "Done"
             => returned'[c].info.Formats = formats[c]]_vars

\* a call has succeeded with a record of each of the four sources
C18_Witness ==
    \E c \in active :
        /\ Succeeded(c)
        /\ jsonConfig[c].Args.URLEncodedFmtStreamMap # <<>>
        /\ jsonConfig[c].Args.AdaptiveFmts # <<>>
        /\ jsonConfig[c].Args.PlayerResponse.kind = "object"
        /\ ItagsOf(returned[c].info.Formats) = <<18, 137, 22, 140>>

\* the records of the segments of a legacy map that carry an itag, in the
\* order of the map
SegmentRecords(rd, adaptive) ==
    LET itags   == MapItagSeq(rd)
        decoded == SelectSeq(itags, LAMBDA n : n > 0)
    IN  [n \in DOMAIN decoded |-> [Itag |-> decoded[n], Adaptive |-> adaptive]]

\* C19: the records a batch adds are exactly its elements that decode, one
\* record each and in the order of the input, and an element that does not
\* decode adds nothing: after the legacy step the list is the decodable
\* segments of the muxed map and then those of the adaptive map, a playable
\* player response adds the decodable elements of its two lists, and no
\* record is without an itag.
C19_BatchAddsExactlyItsDecodableElements ==
    \A c \in active :
        LET inf    == jsonConfig[c].Args
            legacy == SegmentRecords(inf.URLEncodedFmtStreamMap, FALSE)
                        \o SegmentRecords(inf.AdaptiveFmts, TRUE)
        IN  /\ pc[c] = "FormatsBuilt" => formats[c] = legacy
            /\ Succeeded(c) /\ inf.PlayerResponse.kind = "object"
               => returned[c].info.Formats
                    = legacy \o RecordsOf(ResponseOf(c).StreamingData.Formats, FALSE)
                             \o RecordsOf(ResponseOf(c).StreamingData.AdaptiveFormats, TRUE)
            /\ \A n \in DOMAIN formats[c] : formats[c][n].Itag > 0

\* C20: the htmlPlayerFile of a returned VideoInfo is the assets.js of the
\* configuration decoded from the page when the page holds one, and is empty
\* when the configuration came from the endpoint, which a request was sent to.
C20_PlayerFileIsEmbeddedAssetsJS ==
    \A c \in active :
        Succeeded(c) =>
            IF html[c].playerConfig.kind = "object"
            THEN /\ returned[c].info.htmlPlayerFile = html[c].playerConfig.value.Assets.JS
                 /\ requests[c] = <<>>
            ELSE /\ returned[c].info.htmlPlayerFile = ""
                 /\ requests[c] # <<>>

\* a call has succeeded through the endpoint with formats and no player script
C20_Witness ==
    \E c \in active :
        /\ Succeeded(c)
        /\ Has(trace[c], "receiveFallback")
        /\ returned[c].info.Formats # <<>>
        /\ returned[c].info.htmlPlayerFile = ""

====
